---- MODULE Spec2Model ----
(***************************************************************************)
(* Broadcast campaigns of wasslchat: the controller operations of          *)
(* BroadcastsService (create, update, delete, send, pause, resume, cancel), *)
(* the Bull queue 'broadcasts' they feed, and the dispatcher               *)
(* BroadcastProcessor.handleSendBroadcast that the queue's workers run.    *)
(*                                                                         *)
(* Every handler is cut at its awaits that matter for interleaving: a       *)
(* controller operation into the read that validates it and the write that  *)
(* commits it, a dispatcher run into its database reads and writes and the  *)
(* gateway fan-out of a batch.                                              *)
(*                                                                         *)
(* Specifications: Spec (every operation but delete), LiveSpec (send,      *)
(* pause, resume under fair scheduling), ControlSpec (send, pause, resume, *)
(* cancel), SendSpec (one campaign sent once, under fair scheduling),      *)
(* BatchSpec (one campaign of up to MaxListLen recipients sent once),      *)
(* CrashSpec (one campaign sent once by a worker process that may crash),  *)
(* DeleteSpec (create, update, delete, send, pause and cancel), MultiSpec  *)
(* (several campaigns at once) and ResolveSpec (calculateRecipients alone, *)
(* over a set of targeting rules).                                         *)
(***************************************************************************)
EXTENDS Integers, Sequences, FiniteSets, TLC

----------------------------------------------------------------------------
(* Bounds of the model *)

\* valid contacts of tenant "t1", hence the largest recipient list
MaxRecipients == 2
\* batch sizes a dto may ask for: 1..MaxBatchSize
MaxBatchSize == 2
\* how many times update may replace the recipient rows of a campaign
MaxRetargets == 1
\* worker processes consuming the queue (each runs one job at a time)
NumWorkers == 2
\* longest explicit contact list of a targeting rule given to the resolver alone
MaxCustomLen == 2
\* recipients of the longest campaign of the batching scenario
MaxListLen == 5
\* crashes of a dispatcher process in the crash scenario
MaxCrashes == 1

(* Program constants *)

\* defaultJobOptions.attempts
attempts == 3
\* defaultJobOptions.removeOnComplete: completed jobs Bull keeps
removeOnComplete == 100
\* plan.broadcastsLimit of the seeded plan of "t1"
broadcastsLimit == 1000
\* dto.batchSize || 50
DefaultBatchSize == 50

----------------------------------------------------------------------------
(* Generic helpers *)

Min(a, b) == IF a < b THEN a ELSE b

RECURSIVE SortedSeq(_)
\* the elements of a finite set of integers, ascending
SortedSeq(S) ==
  IF S = {} THEN <<>>
  ELSE LET m == CHOOSE x \in S : \A y \in S : x <= y
       IN <<m>> \o SortedSeq(S \ {m})

Range(s) == {s[k] : k \in 1..Len(s)}

RECURSIVE Dedup(_)
\* [...new Set(xs)]: first occurrences, in order
Dedup(s) ==
  IF s = <<>> THEN <<>>
  ELSE LET r == Dedup(SubSeq(s, 1, Len(s) - 1))
       IN IF s[Len(s)] \in Range(r) THEN r ELSE Append(r, s[Len(s)])

----------------------------------------------------------------------------
(* The contact data the recipient resolver reads (fixed during a run of    *)
(* the model): contacts 1..MaxRecipients are deliverable contacts of "t1", *)
(* then one contact of "t1" without a phone, then one contact of "t2".     *)

Tenants == {"t1", "t2"}
NoPhoneContact == MaxRecipients + 1
ForeignContact == MaxRecipients + 2
ContactIds == 1..(MaxRecipients + 2)

Contact(c) ==
  [ tenantId    |-> IF c = ForeignContact THEN "t2" ELSE "t1",
    phone       |-> c # NoPhoneContact,
    tags        |-> IF c = 1 THEN {"vip"} ELSE IF c = NoPhoneContact THEN {"vip", "new"} ELSE {"new"},
    ordersCount |-> IF c = 1 THEN 2 ELSE 0,
    totalSpent  |-> IF c = 1 THEN 5 ELSE 0,
    governorate |-> IF c = 1 THEN "cairo" ELSE "giza" ]

\* contactGroupMember rows: group "g1" holds contact 1 and the contact
\* without phone, group "g2" holds contact 1 and the contact of "t2"
GroupMembers ==
  << [groupId |-> "g1", contactId |-> 1],
     [groupId |-> "g1", contactId |-> NoPhoneContact],
     [groupId |-> "g2", contactId |-> 1],
     [groupId |-> "g2", contactId |-> ForeignContact] >>

NoFilters ==
  [ present |-> FALSE, hasOrders |-> FALSE, minSpent |-> 0, maxSpent |-> 0,
    governorate |-> {} ]
\* what create stores for a dto without filters: dto.filters || {}
EmptyFilters == [NoFilters EXCEPT !.present = TRUE]

\* the where clause of the filter query
MatchesFilters(tenantId, ids, filters, c) ==
  /\ c \in Range(ids)
  /\ Contact(c).tenantId = tenantId
  /\ Contact(c).phone
  /\ filters.hasOrders => Contact(c).ordersCount > 0
  /\ filters.minSpent # 0 => Contact(c).totalSpent >= filters.minSpent
  /\ filters.maxSpent # 0 => Contact(c).totalSpent <= filters.maxSpent
  /\ filters.governorate # {} => Contact(c).governorate \in filters.governorate

\* the switch on dto.targetType
TargetContacts(tenantId, dto) ==
  CASE dto.targetType = "ALL" ->
         SortedSeq({c \in ContactIds : Contact(c).tenantId = tenantId /\ Contact(c).phone})
    [] dto.targetType = "GROUP" ->
         IF dto.targetGroupIds # {}
         THEN Dedup([k \in 1..Len(SelectSeq(GroupMembers, LAMBDA m : m.groupId \in dto.targetGroupIds))
                      |-> SelectSeq(GroupMembers, LAMBDA m : m.groupId \in dto.targetGroupIds)[k].contactId])
         ELSE <<>>
    [] dto.targetType = "TAG" ->
         IF dto.targetTags # {}
         THEN SortedSeq({c \in ContactIds :
                           Contact(c).tenantId = tenantId /\ Contact(c).tags \cap dto.targetTags # {}})
         ELSE <<>>
    [] dto.targetType = "CUSTOM" -> dto.targetContactIds
    [] OTHER -> <<>>

calculateRecipients(tenantId, dto) ==
  LET contactIds == TargetContacts(tenantId, dto)
  IN IF dto.filters.present /\ Len(contactIds) > 0
     THEN SortedSeq({c \in ContactIds : MatchesFilters(tenantId, contactIds, dto.filters, c)})
     ELSE contactIds

----------------------------------------------------------------------------
(* State *)

BroadcastIds == {"b1", "b2"}
JobKinds == {"main", "resume"}
\* jobId `broadcast-${id}` is <<id, "main">>, `broadcast-${id}-resume` is <<id, "resume">>
JobIds == BroadcastIds \X JobKinds

TerminalStatuses == {"COMPLETED", "CANCELLED", "FAILED"}

VARIABLES
  broadcasts,   \* table broadcast: [BroadcastIds -> row]
  recipients,   \* table broadcastRecipient: [BroadcastIds -> Seq of rows, in creation order]
  nextRowId,    \* next id of a broadcastRecipient row
  jobs,         \* queue 'broadcasts': [JobIds -> [state, attemptsMade]]
  runs,         \* the invocation of handleSendBroadcast for each active job
  api,          \* the controller request in progress
  gw,           \* history of the gateway: rows it was called for (once, twice or more)
                \* and rows with a successful / a failed call
  hist,         \* history of accepted requests per campaign
  limits        \* size of the scenario: campaigns that may be created, retargets
                \* and crashes left

vars == <<broadcasts, recipients, nextRowId, jobs, runs, api, gw, hist, limits>>

NoTarget ==
  [ targetType |-> "NONE", targetGroupIds |-> {}, targetTags |-> {},
    targetContactIds |-> <<>>, filters |-> EmptyFilters ]

NoBroadcast ==
  [ exists |-> FALSE, tenantId |-> "t1", status |-> "DRAFT", totalRecipients |-> 0,
    sentCount |-> 0, failedCount |-> 0, batchSize |-> 0, target |-> NoTarget ]

NoJob == [state |-> "none", attemptsMade |-> 0]

\* pc: where the handler stands; batchSize, sentCount, failedCount: read from the
\* broadcast the handler loaded first, then its local counters; recipients, i,
\* results, j: the locals of the batch loop; notPendingAtSelect: history, the
\* rows of the campaign that were stored not PENDING when the handler queried
NoRun ==
  [ pc |-> "idle", batchSize |-> 0, recipients |-> <<>>, i |-> 0,
    sentCount |-> 0, failedCount |-> 0, results |-> <<>>, j |-> 0,
    notPendingAtSelect |-> {} ]

NoDto ==
  [ targetType |-> "NONE", targetGroupIds |-> {}, targetTags |-> {},
    targetContactIds |-> <<>>, filters |-> NoFilters, scheduledAt |-> "undefined",
    batchSize |-> 0 ]

\* no request in progress
ApiIdle ==
  [op |-> "idle", b |-> "b1", dto |-> NoDto, retarget |-> FALSE, recipientIds |-> <<>>]

\* a request that passed its validation and stands before its next await
ApiStep(op, b) == [ApiIdle EXCEPT !.op = op, !.b = b]

\* pauseInForce: a pause was accepted and no resume since; cancelAccepted: a
\* cancel was accepted
NoHist == [pauseInForce |-> FALSE, cancelAccepted |-> FALSE]

Init ==
  /\ broadcasts = [b \in BroadcastIds |-> NoBroadcast]
  /\ recipients = [b \in BroadcastIds |-> <<>>]
  /\ nextRowId = 1
  /\ jobs = [jid \in JobIds |-> NoJob]
  /\ runs = [jid \in JobIds |-> NoRun]
  /\ api = ApiIdle
  /\ gw = [once |-> {}, twice |-> {}, ok |-> {}, failed |-> {}]
  /\ hist = [b \in BroadcastIds |-> NoHist]
  /\ limits = [broadcasts |-> 1, retargets |-> MaxRetargets, crashes |-> MaxCrashes]

----------------------------------------------------------------------------
(* The Bull queue *)

\* queue.add with a jobId: a job whose id already exists (in any state,
\* completed and failed jobs included while Bull keeps them) is not added
QueueAdd(js, jid, state) ==
  IF js[jid].state = "none"
  THEN [js EXCEPT ![jid] = [state |-> state, attemptsMade |-> 0]]
  ELSE js

\* queue.removeJobs(pattern): removes the matching job unless a worker holds its lock
QueueRemoveJobs(js, jid) ==
  IF js[jid].state \notin {"none", "active"}
  THEN [js EXCEPT ![jid] = NoJob]
  ELSE js

ActiveJobs == {jid \in JobIds : jobs[jid].state = "active"}
CompletedJobs == {jid \in JobIds : jobs[jid].state = "completed"}

\* the handler returned: the job is completed and kept (removeOnComplete: 100)
JobCompleted(jid) ==
  [jobs EXCEPT ![jid].state =
     IF Cardinality(CompletedJobs) < removeOnComplete THEN "completed" ELSE "none"]

\* the handler threw: retried with backoff until `attempts` attempts were made
JobFailed(jid) ==
  [jobs EXCEPT ![jid] =
     [state |-> IF jobs[jid].attemptsMade + 1 < attempts THEN "delayed" ELSE "failed",
      attemptsMade |-> jobs[jid].attemptsMade + 1]]

----------------------------------------------------------------------------
(* BroadcastsService *)

Exists(b) == broadcasts[b].exists
\* findFirst({ where: { id, tenantId } })
Found(tenantId, b) == Exists(b) /\ broadcasts[b].tenantId = tenantId

NewRows(contactIds, firstId) ==
  [k \in 1..Len(contactIds) |->
     [id |-> firstId + k - 1, contactId |-> contactIds[k], status |-> "PENDING"]]

RowCount(tenantId) ==
  LET n[S \in SUBSET BroadcastIds] ==
        IF S = {} THEN 0
        ELSE LET b == CHOOSE x \in S : TRUE
             IN (IF Exists(b) /\ broadcasts[b].tenantId = tenantId
                 THEN Len(recipients[b]) ELSE 0) + n[S \ {b}]
  IN n[BroadcastIds]

\* the inputs of the scenario: targeting rules over the contact data
AllTarget == [NoDto EXCEPT !.targetType = "ALL"]
CustomTarget(ids) == [NoDto EXCEPT !.targetType = "CUSTOM", !.targetContactIds = ids]
CreateDtos ==
  { [t EXCEPT !.scheduledAt = s, !.batchSize = n] :
      t \in {AllTarget, CustomTarget(<<>>)},
      s \in {"undefined", "future", "past"},
      n \in 1..MaxBatchSize }

\* dto.scheduledAt is truthy
Truthy(scheduledAt) == scheduledAt \in {"future", "past"}

\* a create that forgets to reject an empty recipient list
create_NoRecipientCheck(tenantId, dto) ==
  /\ api.op = "idle"
  /\ Cardinality({b \in BroadcastIds : Exists(b)}) < limits.broadcasts
  /\ LET recipientIds == calculateRecipients(tenantId, dto)
         b == CHOOSE x \in BroadcastIds : ~Exists(x)
     IN IF /\ broadcastsLimit # -1
           /\ RowCount(tenantId) + Len(recipientIds) > broadcastsLimit
        THEN /\ api' = ApiIdle
             /\ UNCHANGED <<broadcasts, recipients, nextRowId, jobs>>
        ELSE /\ broadcasts' = [broadcasts EXCEPT ![b] =
                  [ exists |-> TRUE, tenantId |-> tenantId,
                    status |-> IF Truthy(dto.scheduledAt) THEN "SCHEDULED" ELSE "DRAFT",
                    totalRecipients |-> Len(recipientIds),
                    sentCount |-> 0, failedCount |-> 0,
                    batchSize |-> IF dto.batchSize # 0 THEN dto.batchSize ELSE DefaultBatchSize,
                    target |-> [ targetType |-> dto.targetType,
                                 targetGroupIds |-> dto.targetGroupIds,
                                 targetTags |-> dto.targetTags,
                                 targetContactIds |-> dto.targetContactIds,
                                 filters |-> IF dto.filters.present THEN dto.filters
                                             ELSE EmptyFilters ] ]]
             /\ recipients' = [recipients EXCEPT ![b] = NewRows(recipientIds, nextRowId)]
             /\ nextRowId' = nextRowId + Len(recipientIds)
             /\ jobs' = IF dto.scheduledAt = "future"
                        THEN QueueAdd(jobs, <<b, "main">>, "delayed")
                        ELSE jobs
             /\ api' = ApiIdle
  /\ UNCHANGED <<runs, gw, hist, limits>>

create(tenantId, dto) ==
  /\ api.op = "idle"
  /\ Cardinality({b \in BroadcastIds : Exists(b)}) < limits.broadcasts
  /\ LET recipientIds == calculateRecipients(tenantId, dto)
         b == CHOOSE x \in BroadcastIds : ~Exists(x)
     IN IF \/ Len(recipientIds) = 0
           \/ /\ broadcastsLimit # -1
              /\ RowCount(tenantId) + Len(recipientIds) > broadcastsLimit
        THEN /\ api' = ApiIdle
             /\ UNCHANGED <<broadcasts, recipients, nextRowId, jobs>>
        ELSE /\ broadcasts' = [broadcasts EXCEPT ![b] =
                  [ exists |-> TRUE, tenantId |-> tenantId,
                    status |-> IF Truthy(dto.scheduledAt) THEN "SCHEDULED" ELSE "DRAFT",
                    totalRecipients |-> Len(recipientIds),
                    sentCount |-> 0, failedCount |-> 0,
                    batchSize |-> IF dto.batchSize # 0 THEN dto.batchSize ELSE DefaultBatchSize,
                    target |-> [ targetType |-> dto.targetType,
                                 targetGroupIds |-> dto.targetGroupIds,
                                 targetTags |-> dto.targetTags,
                                 targetContactIds |-> dto.targetContactIds,
                                 filters |-> IF dto.filters.present THEN dto.filters
                                             ELSE EmptyFilters ] ]]
             /\ recipients' = [recipients EXCEPT ![b] = NewRows(recipientIds, nextRowId)]
             /\ nextRowId' = nextRowId + Len(recipientIds)
             /\ jobs' = IF dto.scheduledAt = "future"
                        THEN QueueAdd(jobs, <<b, "main">>, "delayed")
                        ELSE jobs
             /\ api' = ApiIdle
  /\ UNCHANGED <<runs, gw, hist, limits>>

\* update recalculates the recipients: some targeting field of the dto is given
\* (a field left out and an empty list are not told apart here)
Retargets(dto) ==
  \/ dto.targetType # "NONE"
  \/ dto.targetGroupIds # {}
  \/ dto.targetTags # {}
  \/ dto.targetContactIds # <<>>
  \/ dto.filters.present

\* dto.x || broadcast.x for each targeting field
EffectiveTarget(dto, target) ==
  [ targetType |-> IF dto.targetType # "NONE" THEN dto.targetType ELSE target.targetType,
    targetGroupIds |-> IF dto.targetGroupIds # {} THEN dto.targetGroupIds
                       ELSE target.targetGroupIds,
    targetTags |-> IF dto.targetTags # {} THEN dto.targetTags ELSE target.targetTags,
    targetContactIds |-> IF dto.targetContactIds # <<>> THEN dto.targetContactIds
                         ELSE target.targetContactIds,
    filters |-> IF dto.filters.present THEN dto.filters ELSE target.filters ]

UpdateDtos ==
  { [t EXCEPT !.scheduledAt = s] :
      t \in {NoDto, CustomTarget(<<1>>)},
      s \in {"undefined", "null", "future", "past"} }

\* update, up to the end of calculateRecipients
updateBegin(tenantId, b, dto) ==
  /\ api.op = "idle"
  /\ Retargets(dto) => limits.retargets > 0
  /\ IF ~Found(tenantId, b)
     THEN api' = ApiIdle /\ UNCHANGED limits
     ELSE IF broadcasts[b].status \notin {"DRAFT", "SCHEDULED"}
     THEN api' = ApiIdle /\ UNCHANGED limits
     ELSE /\ api' = [ApiStep("update_tx", b) EXCEPT
                  !.dto = dto,
                  !.retarget = Retargets(dto),
                  !.recipientIds =
                     IF Retargets(dto)
                     THEN calculateRecipients(tenantId,
                            EffectiveTarget(dto, broadcasts[b].target))
                     ELSE <<>>]
          /\ limits' = [limits EXCEPT !.retargets =
                          IF Retargets(dto) THEN @ - 1 ELSE @]
  /\ UNCHANGED <<broadcasts, recipients, nextRowId, jobs, runs, gw, hist>>

\* a transaction that replaces the rows and leaves totalRecipients as it was
updateTx_KeepsTotal ==
  /\ api.op = "update_tx"
  /\ LET b == api.b
         dto == api.dto
     IN IF ~Exists(b)
        THEN /\ api' = ApiIdle
             /\ UNCHANGED <<broadcasts, recipients, nextRowId>>
        ELSE /\ recipients' = IF api.retarget
                              THEN [recipients EXCEPT ![b] = NewRows(api.recipientIds, nextRowId)]
                              ELSE recipients
             /\ nextRowId' = IF api.retarget THEN nextRowId + Len(api.recipientIds)
                             ELSE nextRowId
             /\ broadcasts' = [broadcasts EXCEPT ![b] =
                  [@ EXCEPT
                     !.target = EffectiveTarget(dto, @),
                     !.batchSize = IF dto.batchSize # 0 THEN dto.batchSize ELSE @,
                     !.status = IF dto.scheduledAt = "undefined" THEN @
                                ELSE IF Truthy(dto.scheduledAt) THEN "SCHEDULED"
                                ELSE "DRAFT"]]
             /\ api' = [api EXCEPT !.op = "update_queue"]
  /\ UNCHANGED <<jobs, runs, gw, hist, limits>>

\* update: prisma.$transaction
updateTx ==
  /\ api.op = "update_tx"
  /\ LET b == api.b
         dto == api.dto
     IN IF ~Exists(b)
        THEN /\ api' = ApiIdle
             /\ UNCHANGED <<broadcasts, recipients, nextRowId>>
        ELSE /\ recipients' = IF api.retarget
                              THEN [recipients EXCEPT ![b] = NewRows(api.recipientIds, nextRowId)]
                              ELSE recipients
             /\ nextRowId' = IF api.retarget THEN nextRowId + Len(api.recipientIds)
                             ELSE nextRowId
             /\ broadcasts' = [broadcasts EXCEPT ![b] =
                  [@ EXCEPT
                     !.target = EffectiveTarget(dto, @),
                     !.totalRecipients = IF api.retarget THEN Len(api.recipientIds) ELSE @,
                     !.batchSize = IF dto.batchSize # 0 THEN dto.batchSize ELSE @,
                     !.status = IF dto.scheduledAt = "undefined" THEN @
                                ELSE IF Truthy(dto.scheduledAt) THEN "SCHEDULED"
                                ELSE "DRAFT"]]
             /\ api' = [api EXCEPT !.op = "update_queue"]
  /\ UNCHANGED <<jobs, runs, gw, hist, limits>>

\* update: reschedule if scheduledAt changed
updateQueue ==
  /\ api.op = "update_queue"
  /\ jobs' = IF Truthy(api.dto.scheduledAt)
             THEN LET removed == QueueRemoveJobs(jobs, <<api.b, "main">>)
                  IN IF api.dto.scheduledAt = "future"
                     THEN QueueAdd(removed, <<api.b, "main">>, "delayed")
                     ELSE removed
             ELSE jobs
  /\ api' = ApiIdle
  /\ UNCHANGED <<broadcasts, recipients, nextRowId, runs, gw, hist, limits>>

\* a check that only looks the campaign up and accepts every status
Validate_NoStatusCheck(tenantId, b, allowed, op) ==
  IF ~Found(tenantId, b) THEN ApiIdle
  ELSE ApiStep(op, b)

\* the status check of send / pause / resume / cancel
Validate(tenantId, b, allowed, op) ==
  IF ~Found(tenantId, b) THEN ApiIdle
  ELSE IF broadcasts[b].status \notin allowed THEN ApiIdle
  ELSE ApiStep(op, b)

\* prisma.broadcast.update({ where: { id }, data: { status } }) of a controller
\* operation; it throws when the row is gone
SetStatus(b, status) ==
  IF Exists(b)
  THEN /\ broadcasts' = [broadcasts EXCEPT ![b].status = status]
       /\ api' = ApiIdle
  ELSE /\ UNCHANGED broadcasts
       /\ api' = ApiIdle

\* send, up to broadcastQueue.add
sendBegin(tenantId, b) ==
  /\ api.op = "idle"
  /\ api' = Validate(tenantId, b, {"DRAFT", "SCHEDULED"}, "send")
  /\ jobs' = IF api'.op = "send" THEN QueueAdd(jobs, <<b, "main">>, "waiting") ELSE jobs
  /\ UNCHANGED <<broadcasts, recipients, nextRowId, runs, gw, hist, limits>>

sendCommit ==
  /\ api.op = "send"
  /\ SetStatus(api.b, "QUEUED")
  /\ UNCHANGED <<recipients, nextRowId, jobs, runs, gw, hist, limits>>

\* pause, up to broadcastQueue.getJob
pauseBegin(tenantId, b) ==
  /\ api.op = "idle"
  /\ api' = Validate(tenantId, b, {"SENDING"}, "pause")
  /\ UNCHANGED <<broadcasts, recipients, nextRowId, jobs, runs, gw, hist, limits>>

pauseCommit ==
  /\ api.op = "pause"
  /\ SetStatus(api.b, "PAUSED")
  /\ hist' = IF Exists(api.b) THEN [hist EXCEPT ![api.b].pauseInForce = TRUE] ELSE hist
  /\ UNCHANGED <<recipients, nextRowId, jobs, runs, gw, limits>>

\* resume, up to broadcastQueue.add
resumeBegin(tenantId, b) ==
  /\ api.op = "idle"
  /\ api' = Validate(tenantId, b, {"PAUSED"}, "resume")
  /\ jobs' = IF api'.op = "resume" THEN QueueAdd(jobs, <<b, "resume">>, "waiting") ELSE jobs
  /\ hist' = IF api'.op = "resume"
             THEN [hist EXCEPT ![b].pauseInForce = FALSE]
             ELSE hist
  /\ UNCHANGED <<broadcasts, recipients, nextRowId, runs, gw, limits>>

\* a resume that puts the FAILED rows back to PENDING for another try
resumeCommit_ResetsFailedRows ==
  /\ api.op = "resume"
  /\ SetStatus(api.b, "SENDING")
  /\ recipients' = [recipients EXCEPT ![api.b] =
        [k \in 1..Len(@) |-> IF @[k].status = "FAILED"
                             THEN [@[k] EXCEPT !.status = "PENDING"] ELSE @[k]]]
  /\ UNCHANGED <<nextRowId, jobs, runs, gw, hist, limits>>

resumeCommit ==
  /\ api.op = "resume"
  /\ SetStatus(api.b, "SENDING")
  /\ UNCHANGED <<recipients, nextRowId, jobs, runs, gw, hist, limits>>

\* cancel, up to broadcastQueue.removeJobs
cancelBegin(tenantId, b) ==
  /\ api.op = "idle"
  /\ api' = Validate(tenantId, b, {"QUEUED", "SENDING", "PAUSED", "SCHEDULED"}, "cancel")
  /\ jobs' = IF api'.op = "cancel" THEN QueueRemoveJobs(jobs, <<b, "main">>) ELSE jobs
  /\ UNCHANGED <<broadcasts, recipients, nextRowId, runs, gw, hist, limits>>

\* a cancel that also closes the rows still PENDING as FAILED
cancelCommit_FailsPendingRows ==
  /\ api.op = "cancel"
  /\ SetStatus(api.b, "CANCELLED")
  /\ recipients' = [recipients EXCEPT ![api.b] =
        [k \in 1..Len(@) |-> IF @[k].status = "PENDING"
                             THEN [@[k] EXCEPT !.status = "FAILED"] ELSE @[k]]]
  /\ hist' = IF Exists(api.b) THEN [hist EXCEPT ![api.b].cancelAccepted = TRUE] ELSE hist
  /\ UNCHANGED <<nextRowId, jobs, runs, gw, limits>>

cancelCommit ==
  /\ api.op = "cancel"
  /\ SetStatus(api.b, "CANCELLED")
  /\ hist' = IF Exists(api.b) THEN [hist EXCEPT ![api.b].cancelAccepted = TRUE] ELSE hist
  /\ UNCHANGED <<recipients, nextRowId, jobs, runs, gw, limits>>

\* a delete that looks the campaign up and accepts every status
deleteBegin_NoStatusCheck(tenantId, b) ==
  /\ api.op = "idle"
  /\ api' = IF ~Found(tenantId, b) THEN ApiIdle ELSE ApiStep("delete", b)
  /\ jobs' = IF api'.op = "delete" THEN QueueRemoveJobs(jobs, <<b, "main">>) ELSE jobs
  /\ UNCHANGED <<broadcasts, recipients, nextRowId, runs, gw, hist, limits>>

\* delete, up to broadcastQueue.removeJobs: rejected when the campaign is not
\* found or is SENDING
deleteBegin(tenantId, b) ==
  /\ api.op = "idle"
  /\ api' = IF ~Found(tenantId, b) THEN ApiIdle
            ELSE IF broadcasts[b].status = "SENDING" THEN ApiIdle
            ELSE ApiStep("delete", b)
  /\ jobs' = IF api'.op = "delete" THEN QueueRemoveJobs(jobs, <<b, "main">>) ELSE jobs
  /\ UNCHANGED <<broadcasts, recipients, nextRowId, runs, gw, hist, limits>>

\* delete: the transaction that deletes the rows and the broadcast (it throws,
\* and changes nothing, when the broadcast is gone). A deleted campaign's id is
\* never given to a new campaign
deleteCommit ==
  /\ api.op = "delete"
  /\ IF Exists(api.b)
     THEN /\ recipients' = [recipients EXCEPT ![api.b] = <<>>]
          /\ broadcasts' = [broadcasts EXCEPT ![api.b] = NoBroadcast]
          /\ limits' = [limits EXCEPT !.broadcasts = @ - 1]
     ELSE UNCHANGED <<recipients, broadcasts, limits>>
  /\ api' = ApiIdle
  /\ UNCHANGED <<nextRowId, jobs, runs, gw, hist>>

----------------------------------------------------------------------------
(* The workers of the queue and BroadcastProcessor.handleSendBroadcast *)

\* a delayed job (scheduled, or backing off after a failure) becomes due
jobReady(jid) ==
  /\ jobs[jid].state = "delayed"
  /\ jobs' = [jobs EXCEPT ![jid].state = "waiting"]
  /\ UNCHANGED <<broadcasts, recipients, nextRowId, runs, api, gw, hist, limits>>

Run(jid, pc) == runs[jid].pc = pc /\ jobs[jid].state = "active"

\* the handler returns: the job completes
Return(jid) ==
  /\ runs' = [runs EXCEPT ![jid] = NoRun]
  /\ jobs' = JobCompleted(jid)

\* a worker takes a waiting job; the handler loads the broadcast and returns
\* at once when it is CANCELLED
startJob(jid) ==
  /\ jobs[jid].state = "waiting"
  /\ Cardinality(ActiveJobs) < NumWorkers
  /\ LET broadcast == broadcasts[jid[1]]
     IN IF ~broadcast.exists
        THEN /\ jobs' = [jobs EXCEPT ![jid].state = "active"]
             /\ runs' = [runs EXCEPT ![jid] = [NoRun EXCEPT !.pc = "catch"]]
        ELSE IF broadcast.status = "CANCELLED"
        THEN Return(jid)
        ELSE /\ jobs' = [jobs EXCEPT ![jid].state = "active"]
             /\ runs' = [runs EXCEPT ![jid] =
                  [NoRun EXCEPT !.pc = "setSending",
                                !.batchSize = IF broadcast.batchSize # 0
                                              THEN broadcast.batchSize ELSE DefaultBatchSize,
                                !.sentCount = broadcast.sentCount,
                                !.failedCount = broadcast.failedCount]]
  /\ UNCHANGED <<broadcasts, recipients, nextRowId, api, gw, hist, limits>>

\* update status to sending
setSending(jid) ==
  /\ Run(jid, "setSending")
  /\ IF Exists(jid[1])
     THEN /\ broadcasts' = [broadcasts EXCEPT ![jid[1]].status = "SENDING"]
          /\ runs' = [runs EXCEPT ![jid].pc = "select"]
     ELSE /\ runs' = [runs EXCEPT ![jid].pc = "catch"]
          /\ UNCHANGED broadcasts
  /\ UNCHANGED <<recipients, nextRowId, jobs, api, gw, hist, limits>>

\* a query that forgets the status filter
PendingRecipients_NoStatusFilter(b) == recipients[b]

\* findMany({ where: { broadcastId, status: 'PENDING' }, orderBy: { createdAt: 'asc' } })
PendingRecipients(b) == SelectSeq(recipients[b], LAMBDA r : r.status = "PENDING")

\* get pending recipients
selectPending(jid) ==
  /\ Run(jid, "select")
  /\ LET found == PendingRecipients(jid[1])
     IN runs' = [runs EXCEPT ![jid] =
          [@ EXCEPT !.recipients = [k \in 1..Len(found) |-> found[k].id],
                    !.i = 0,
                    !.pc = IF Len(found) > 0 THEN "loop" ELSE "complete",
                    !.notPendingAtSelect =
                       {r.id : r \in {x \in Range(recipients[jid[1]]) : x.status # "PENDING"}}]]
  /\ UNCHANGED <<broadcasts, recipients, nextRowId, jobs, api, gw, hist, limits>>

\* a slice that takes one row too many
Batch_OneRowTooMany(run) ==
  SubSeq(run.recipients, run.i + 1, Min(run.i + run.batchSize + 1, Len(run.recipients)))

\* recipients.slice(i, i + batchSize)
Batch(run) ==
  SubSeq(run.recipients, run.i + 1, Min(run.i + run.batchSize, Len(run.recipients)))

\* the rows of the batch whose gateway call a run has started and whose outcome
\* it has not recorded yet
InFlight(jid) ==
  IF jobs[jid].state = "active" /\ runs[jid].pc \in {"inflight", "record"}
  THEN {Batch(runs[jid])[k] : k \in (IF runs[jid].pc = "inflight" THEN 1 ELSE runs[jid].j)
                                      ..Len(Batch(runs[jid]))}
  ELSE {}

\* the gateway is called for a set of rows
Called(rows) ==
  [gw EXCEPT !.once = @ \cup rows, !.twice = @ \cup (rows \cap gw.once)]

\* top of the batch loop: the handler re-reads the status, returns when it is
\* PAUSED or CANCELLED, and otherwise starts the gateway calls of the batch
checkAndDispatch(jid) ==
  /\ Run(jid, "loop")
  /\ IF Exists(jid[1]) /\ broadcasts[jid[1]].status \in {"PAUSED", "CANCELLED"}
     THEN /\ Return(jid)
          /\ UNCHANGED gw
     ELSE /\ runs' = [runs EXCEPT ![jid].pc = "inflight"]
          /\ gw' = Called(Range(Batch(runs[jid])))
          /\ UNCHANGED jobs
  /\ UNCHANGED <<broadcasts, recipients, nextRowId, api, hist, limits>>

\* what the gateway does with one call: it returns, or it throws an error that
\* is transient (rate limit, timeout, outage) or permanent (invalid address)
GatewayOutcomes == {"SENT", "TRANSIENT_FAILURE", "PERMANENT_FAILURE"}

\* sendMessage: success when the gateway returned, and every error the gateway
\* throws is caught and returned as success false with the error's message
sendMessage(outcome) ==
  [success |-> outcome = "SENT", error |-> IF outcome = "SENT" THEN "none" ELSE outcome]

\* Promise.allSettled resolves: sendMessage catches every error of the gateway,
\* so each result is fulfilled
settle(jid) ==
  /\ Run(jid, "inflight")
  /\ \E outcomes \in [1..Len(Batch(runs[jid])) -> GatewayOutcomes] :
       LET results == [k \in DOMAIN outcomes |-> sendMessage(outcomes[k])]
       IN /\ runs' = [runs EXCEPT ![jid].results = results, ![jid].j = 1, ![jid].pc = "record"]
          /\ gw' = [gw EXCEPT
                      !.ok = @ \cup {Batch(runs[jid])[k] : k \in {x \in DOMAIN results : results[x].success}},
                      !.failed = @ \cup {Batch(runs[jid])[k] : k \in {x \in DOMAIN results : ~results[x].success}}]
  /\ UNCHANGED <<broadcasts, recipients, nextRowId, jobs, api, hist, limits>>

HasRow(b, id) == \E k \in 1..Len(recipients[b]) : recipients[b][k].id = id

\* prisma.broadcastRecipient.update({ where: { id }, data: { status } })
SetRowStatus(rows, id, status) ==
  [k \in 1..Len(rows) |-> IF rows[k].id = id THEN [rows[k] EXCEPT !.status = status]
                           ELSE rows[k]]

\* a loop that gives up on the first failed result: the error is thrown and the
\* rest of the batch is never recorded
recordOutcome_ThrowOnFailure(jid) ==
  /\ Run(jid, "record")
  /\ LET run == runs[jid]
         b == jid[1]
         id == Batch(run)[run.j]
         success == run.results[run.j].success
         last == run.j = Len(Batch(run))
     IN IF ~HasRow(b, id) \/ ~success
        THEN /\ runs' = [runs EXCEPT ![jid].pc = "catch"]
             /\ UNCHANGED recipients
        ELSE /\ recipients' = [recipients EXCEPT ![b] = SetRowStatus(@, id, "SENT")]
             /\ runs' = [runs EXCEPT
                  ![jid].sentCount = @ + 1,
                  ![jid].j = IF last THEN 0 ELSE @ + 1,
                  ![jid].results = IF last THEN <<>> ELSE @,
                  ![jid].pc = IF last THEN "counts" ELSE "record"]
  /\ UNCHANGED <<broadcasts, nextRowId, jobs, api, gw, hist, limits>>

\* an update of the recipient rows by contact instead of by row id
recordOutcome_ByContact(jid) ==
  /\ Run(jid, "record")
  /\ LET run == runs[jid]
         b == jid[1]
         id == Batch(run)[run.j]
         success == run.results[run.j].success
         last == run.j = Len(Batch(run))
     IN IF ~HasRow(b, id)
        THEN /\ runs' = [runs EXCEPT ![jid].pc = "catch"]
             /\ UNCHANGED recipients
        ELSE /\ recipients' =
                  LET contactId == (CHOOSE r \in Range(recipients[b]) : r.id = id).contactId
                  IN [c \in BroadcastIds |->
                        [k \in 1..Len(recipients[c]) |->
                           IF recipients[c][k].contactId = contactId
                           THEN [recipients[c][k] EXCEPT
                                   !.status = IF success THEN "SENT" ELSE "FAILED"]
                           ELSE recipients[c][k]]]
             /\ runs' = [runs EXCEPT
                  ![jid].sentCount = IF success THEN @ + 1 ELSE @,
                  ![jid].failedCount = IF success THEN @ ELSE @ + 1,
                  ![jid].j = IF last THEN 0 ELSE @ + 1,
                  ![jid].results = IF last THEN <<>> ELSE @,
                  ![jid].pc = IF last THEN "counts" ELSE "record"]
  /\ UNCHANGED <<broadcasts, nextRowId, jobs, api, gw, hist, limits>>

\* update recipient statuses: one row of the batch
recordOutcome(jid) ==
  /\ Run(jid, "record")
  /\ LET run == runs[jid]
         b == jid[1]
         id == Batch(run)[run.j]
         success == run.results[run.j].success
         last == run.j = Len(Batch(run))
     IN IF ~HasRow(b, id)
        THEN /\ runs' = [runs EXCEPT ![jid].pc = "catch"]
             /\ UNCHANGED recipients
        ELSE /\ recipients' = [recipients EXCEPT ![b] =
                  SetRowStatus(@, id, IF success THEN "SENT" ELSE "FAILED")]
             /\ runs' = [runs EXCEPT
                  ![jid].sentCount = IF success THEN @ + 1 ELSE @,
                  ![jid].failedCount = IF success THEN @ ELSE @ + 1,
                  ![jid].j = IF last THEN 0 ELSE @ + 1,
                  ![jid].results = IF last THEN <<>> ELSE @,
                  ![jid].pc = IF last THEN "counts" ELSE "record"]
  /\ UNCHANGED <<broadcasts, nextRowId, jobs, api, gw, hist, limits>>

\* a loop bound that is off by one: a last batch of a single row is never taken
updateCounts_SkipsLastRow(jid) ==
  /\ Run(jid, "counts")
  /\ LET run == runs[jid]
     IN IF Exists(jid[1])
        THEN /\ broadcasts' = [broadcasts EXCEPT ![jid[1]].sentCount = run.sentCount,
                                                 ![jid[1]].failedCount = run.failedCount]
             /\ runs' = [runs EXCEPT
                  ![jid].i = run.i + run.batchSize,
                  ![jid].pc = IF run.i + run.batchSize < Len(run.recipients) - 1
                              THEN "loop" ELSE "complete"]
        ELSE /\ runs' = [runs EXCEPT ![jid].pc = "catch"]
             /\ UNCHANGED broadcasts
  /\ UNCHANGED <<recipients, nextRowId, jobs, api, gw, hist, limits>>

\* update broadcast counts, then the loop's i += batchSize (job.progress and the
\* sleep between two batches touch nothing the campaign or its rows hold)
updateCounts(jid) ==
  /\ Run(jid, "counts")
  /\ LET run == runs[jid]
     IN IF Exists(jid[1])
        THEN /\ broadcasts' = [broadcasts EXCEPT ![jid[1]].sentCount = run.sentCount,
                                                 ![jid[1]].failedCount = run.failedCount]
             /\ runs' = [runs EXCEPT
                  ![jid].i = run.i + run.batchSize,
                  ![jid].pc = IF run.i + run.batchSize < Len(run.recipients)
                              THEN "loop" ELSE "complete"]
        ELSE /\ runs' = [runs EXCEPT ![jid].pc = "catch"]
             /\ UNCHANGED broadcasts
  /\ UNCHANGED <<recipients, nextRowId, jobs, api, gw, hist, limits>>

\* a run that takes a batch loop in which no send succeeded for a broken run
complete_FailedWhenNothingSent(jid) ==
  /\ Run(jid, "complete")
  /\ IF Exists(jid[1])
     THEN /\ broadcasts' = [broadcasts EXCEPT
                ![jid[1]].status = IF runs[jid].sentCount = 0 /\ runs[jid].failedCount > 0
                                   THEN "FAILED" ELSE "COMPLETED",
                ![jid[1]].sentCount = runs[jid].sentCount,
                ![jid[1]].failedCount = runs[jid].failedCount]
          /\ Return(jid)
     ELSE /\ runs' = [runs EXCEPT ![jid].pc = "catch"]
          /\ UNCHANGED <<broadcasts, jobs>>
  /\ UNCHANGED <<recipients, nextRowId, api, gw, hist, limits>>

\* mark as completed
complete(jid) ==
  /\ Run(jid, "complete")
  /\ IF Exists(jid[1])
     THEN /\ broadcasts' = [broadcasts EXCEPT ![jid[1]].status = "COMPLETED",
                                              ![jid[1]].sentCount = runs[jid].sentCount,
                                              ![jid[1]].failedCount = runs[jid].failedCount]
          /\ Return(jid)
     ELSE /\ runs' = [runs EXCEPT ![jid].pc = "catch"]
          /\ UNCHANGED <<broadcasts, jobs>>
  /\ UNCHANGED <<recipients, nextRowId, api, gw, hist, limits>>

\* the catch block: the campaign is set to FAILED and the error rethrown, which
\* fails the job
catch(jid) ==
  /\ Run(jid, "catch")
  /\ broadcasts' = IF Exists(jid[1])
                   THEN [broadcasts EXCEPT ![jid[1]].status = "FAILED"]
                   ELSE broadcasts
  /\ runs' = [runs EXCEPT ![jid] = NoRun]
  /\ jobs' = JobFailed(jid)
  /\ UNCHANGED <<recipients, nextRowId, api, gw, hist, limits>>

----------------------------------------------------------------------------

Controller ==
  \/ \E dto \in CreateDtos : create("t1", dto)
  \/ \E t \in Tenants, b \in BroadcastIds, dto \in UpdateDtos : updateBegin(t, b, dto)
  \/ updateTx
  \/ updateQueue
  \/ \E t \in Tenants, b \in BroadcastIds : sendBegin(t, b)
  \/ sendCommit
  \/ \E t \in Tenants, b \in BroadcastIds : pauseBegin(t, b)
  \/ pauseCommit
  \/ \E t \in Tenants, b \in BroadcastIds : resumeBegin(t, b)
  \/ resumeCommit
  \/ \E t \in Tenants, b \in BroadcastIds : cancelBegin(t, b)
  \/ cancelCommit

\* the steps of the queue and of a handler that meets no error
Dispatch ==
  \E jid \in JobIds :
    \/ jobReady(jid)
    \/ startJob(jid)
    \/ setSending(jid)
    \/ selectPending(jid)
    \/ checkAndDispatch(jid)
    \/ settle(jid)
    \/ recordOutcome(jid)
    \/ updateCounts(jid)
    \/ complete(jid)

Dispatcher == Dispatch \/ \E jid \in JobIds : catch(jid)

Next == Controller \/ Dispatcher

Spec == Init /\ [][Next]_vars

\* Fair scheduling: a request that passed its validation runs to its end, a due
\* job is taken by a worker, and a running handler takes its next step. Whether
\* a client sends a request at all is left open.
Fairness ==
  /\ WF_vars(sendCommit \/ pauseCommit \/ resumeCommit)
  /\ WF_vars(Dispatch)

\* the scenario of a campaign that is sent, paused and resumed: no update, no
\* cancel, and hence no handler that throws
NextLive ==
  \/ \E dto \in CreateDtos : create("t1", dto)
  \/ \E t \in Tenants, b \in BroadcastIds : sendBegin(t, b)
  \/ sendCommit
  \/ \E t \in Tenants, b \in BroadcastIds : pauseBegin(t, b)
  \/ pauseCommit
  \/ \E t \in Tenants, b \in BroadcastIds : resumeBegin(t, b)
  \/ resumeCommit
  \/ Dispatch

LiveSpec == Init /\ [][NextLive]_vars /\ Fairness

\* the scenario of the control requests on a campaign whose definition is not
\* changed any more: send, pause, resume and cancel, in every interleaving with
\* the dispatcher runs
NextControl ==
  \/ NextLive
  \/ \E t \in Tenants, b \in BroadcastIds : cancelBegin(t, b)
  \/ cancelCommit

ControlSpec == Init /\ [][NextControl]_vars

\* the scenario of one dispatcher run: a campaign is created and sent, with no
\* update, pause, resume or cancel, and hence no handler that throws. Besides
\* the rules of CreateDtos it has a CUSTOM list of every deliverable contact of
\* "t1" and the contact without a phone (a CUSTOM list is stored as it is given)
SendDtos ==
  CreateDtos \cup
    { [CustomTarget(SortedSeq(1..NoPhoneContact)) EXCEPT !.batchSize = n] :
        n \in 1..MaxBatchSize }

NextSend ==
  \/ \E dto \in SendDtos : create("t1", dto)
  \/ \E t \in Tenants, b \in BroadcastIds : sendBegin(t, b)
  \/ sendCommit
  \/ Dispatch

SendSpec == Init /\ [][NextSend]_vars /\ Fairness

\* the scenario of one dispatcher run over a longer list: a campaign with a
\* CUSTOM list of 1 to MaxListLen contact ids (stored as it is given) and each
\* batch size is created and sent, with no update, pause, resume or cancel
BatchDtos ==
  { [CustomTarget([k \in 1..n |-> k]) EXCEPT !.scheduledAt = at, !.batchSize = bs] :
      n \in 1..MaxListLen, at \in {"undefined", "future"}, bs \in 1..MaxBatchSize }

NextBatch ==
  \/ \E dto \in BatchDtos : create("t1", dto)
  \/ \E t \in Tenants, b \in BroadcastIds : sendBegin(t, b)
  \/ sendCommit
  \/ Dispatch

BatchSpec == Init /\ [][NextBatch]_vars /\ Fairness

\* the process of a worker dies while it runs the handler, at any await: the
\* locals of the run are lost, the gateway calls it had started stay made, and
\* the queue, finding the job stalled, hands it to a worker again
crash(jid) ==
  /\ jobs[jid].state = "active"
  /\ limits.crashes > 0
  /\ runs' = [runs EXCEPT ![jid] = NoRun]
  /\ jobs' = [jobs EXCEPT ![jid].state = "waiting"]
  /\ limits' = [limits EXCEPT !.crashes = @ - 1]
  /\ UNCHANGED <<broadcasts, recipients, nextRowId, api, gw, hist>>

\* the scenario of one campaign that is created and sent and whose dispatcher
\* process may crash: no update, pause, resume or cancel
NextCrash ==
  \/ NextSend
  \/ \E jid \in JobIds : crash(jid)

CrashSpec == Init /\ [][NextCrash]_vars

\* the scenario of a campaign that is edited and deleted: create, update,
\* send, pause, cancel and delete in every interleaving with the dispatcher
\* runs, which may throw
NextDelete ==
  \/ \E dto \in CreateDtos : create("t1", dto)
  \/ \E t \in Tenants, b \in BroadcastIds, dto \in UpdateDtos : updateBegin(t, b, dto)
  \/ updateTx
  \/ updateQueue
  \/ \E t \in Tenants, b \in BroadcastIds : sendBegin(t, b)
  \/ sendCommit
  \/ \E t \in Tenants, b \in BroadcastIds : pauseBegin(t, b)
  \/ pauseCommit
  \/ \E t \in Tenants, b \in BroadcastIds : cancelBegin(t, b)
  \/ cancelCommit
  \/ \E t \in Tenants, b \in BroadcastIds : deleteBegin(t, b)
  \/ deleteCommit
  \/ Dispatcher

DeleteSpec == Init /\ [][NextDelete]_vars

\* the scenario of several campaigns of one tenant over the same contacts: each
\* is created, sent and possibly paused or cancelled, and their runs interleave
InitMulti ==
  /\ broadcasts = [b \in BroadcastIds |-> NoBroadcast]
  /\ recipients = [b \in BroadcastIds |-> <<>>]
  /\ nextRowId = 1
  /\ jobs = [jid \in JobIds |-> NoJob]
  /\ runs = [jid \in JobIds |-> NoRun]
  /\ api = ApiIdle
  /\ gw = [once |-> {}, twice |-> {}, ok |-> {}, failed |-> {}]
  /\ hist = [b \in BroadcastIds |-> NoHist]
  /\ limits = [broadcasts |-> Cardinality(BroadcastIds), retargets |-> MaxRetargets,
               crashes |-> MaxCrashes]

MultiDtos == { [AllTarget EXCEPT !.scheduledAt = s] : s \in {"undefined", "future"} }

NextMulti ==
  \/ \E dto \in MultiDtos : create("t1", dto)
  \/ \E t \in Tenants, b \in BroadcastIds : sendBegin(t, b)
  \/ sendCommit
  \/ \E t \in Tenants, b \in BroadcastIds : cancelBegin(t, b)
  \/ cancelCommit
  \/ \E t \in Tenants, b \in BroadcastIds : pauseBegin(t, b)
  \/ pauseCommit
  \/ Dispatch

MultiSpec == InitMulti /\ [][NextMulti]_vars

\* The recipient resolver on its own: the targeting rules it is given, over
\* the contact data above
ResolveFilters ==
  { NoFilters, EmptyFilters,
    [EmptyFilters EXCEPT !.hasOrders = TRUE],
    [EmptyFilters EXCEPT !.minSpent = 1],
    [EmptyFilters EXCEPT !.governorate = {"cairo"}] }

ContactLists == UNION {[1..n -> ContactIds] : n \in 0..MaxCustomLen}

ResolveDtos ==
  { [NoDto EXCEPT !.targetType = "ALL", !.filters = f] : f \in ResolveFilters }
  \cup { [NoDto EXCEPT !.targetType = "GROUP", !.targetGroupIds = g, !.filters = f] :
           g \in SUBSET {"g1", "g2"}, f \in ResolveFilters }
  \cup { [NoDto EXCEPT !.targetType = "TAG", !.targetTags = g, !.filters = f] :
           g \in SUBSET {"vip", "new"}, f \in ResolveFilters }
  \cup { [NoDto EXCEPT !.targetType = "CUSTOM", !.targetContactIds = ids, !.filters = f] :
           ids \in ContactLists, f \in ResolveFilters }

InitResolve ==
  /\ broadcasts = [b \in BroadcastIds |-> NoBroadcast]
  /\ recipients = [b \in BroadcastIds |-> <<>>]
  /\ nextRowId = 1
  /\ jobs = [jid \in JobIds |-> NoJob]
  /\ runs = [jid \in JobIds |-> NoRun]
  /\ api \in {[ApiStep("resolve", "b1") EXCEPT !.dto = dto] : dto \in ResolveDtos}
  /\ gw = [once |-> {}, twice |-> {}, ok |-> {}, failed |-> {}]
  /\ hist = [b \in BroadcastIds |-> NoHist]
  /\ limits = [broadcasts |-> 1, retargets |-> MaxRetargets, crashes |-> MaxCrashes]

\* const recipientIds = await this.calculateRecipients(tenantId, dto)
resolveRecipients(tenantId) ==
  /\ api.op = "resolve"
  /\ api' = [api EXCEPT !.op = "resolved",
                         !.recipientIds = calculateRecipients(tenantId, api.dto)]
  /\ UNCHANGED <<broadcasts, recipients, nextRowId, jobs, runs, gw, hist, limits>>

NextResolve == \E tenantId \in Tenants : resolveRecipients(tenantId)

ResolveSpec == InitResolve /\ [][NextResolve]_vars

----------------------------------------------------------------------------
(* Properties *)

Campaigns == {b \in BroadcastIds : Exists(b)}
JobsOf(b) == {jid \in JobIds : jid[1] = b}
Rows(b) == Range(recipients[b])
PendingCount(b) == Cardinality({r \in Rows(b) : r.status = "PENDING"})
AllInFlight == UNION {InFlight(jid) : jid \in JobIds}

\* a step in which a run of campaign b starts the gateway calls of a batch
DispatchStep(b) ==
  \E jid \in JobsOf(b) : runs[jid].pc = "loop" /\ runs'[jid].pc = "inflight"

\* C1: each recipient row is dispatched to the gateway at most once, over any
\* interleaving of send, pause, resume, cancel and dispatcher runs (no row is
\* sent by two runs of the campaign).
C1_RowDispatchedAtMostOnce == gw.twice = {}

\* C2: every row a run dispatches was stored PENDING when the run selected its
\* recipients: a row that was already recorded SENT or FAILED at that moment is
\* never passed to the gateway by that run.
C2_DispatchesOnlyRowsPendingAtSelect ==
  \A jid \in JobIds :
    runs[jid].pc \in {"inflight", "record"} =>
      Range(Batch(runs[jid])) \cap runs[jid].notPendingAtSelect = {}

\* a later run (the resume run) has selected its recipients while some rows were
\* already recorded, and has a batch of the remaining rows in flight
C2_Witness ==
  \E jid \in JobIds :
    /\ runs[jid].pc = "inflight"
    /\ runs[jid].notPendingAtSelect # {}
    /\ jid[2] = "resume"

\* C3: once the status of a campaign is COMPLETED, CANCELLED or FAILED it never
\* changes again.
C3_TerminalStatusNeverChanges ==
  [][\A b \in BroadcastIds :
       Exists(b) /\ broadcasts[b].status \in TerminalStatuses =>
         broadcasts'[b].status = broadcasts[b].status]_vars

\* C4: once a pause is accepted and until a resume is accepted, no new batch is
\* started for the campaign.
C4_NoBatchStartsWhilePaused ==
  [][\A b \in BroadcastIds : hist[b].pauseInForce => ~DispatchStep(b)]_vars

\* C5: under fair scheduling, with no cancel and no store error, a campaign that
\* is SENDING (after send or after any resume) eventually is COMPLETED with no
\* row PENDING, unless it is paused again.
C5_ResumedCampaignCompletes ==
  \A b \in BroadcastIds :
    (Exists(b) /\ broadcasts[b].status = "SENDING")
      ~> (\/ broadcasts[b].status = "COMPLETED" /\ PendingCount(b) = 0
          \/ broadcasts[b].status = "PAUSED")

\* C6: after a cancel is accepted, no batch is started for the campaign.
C6_NoBatchStartsAfterCancel ==
  [][\A b \in BroadcastIds : hist[b].cancelAccepted => ~DispatchStep(b)]_vars

\* C7: every row whose gateway call was started and is no longer in flight is
\* recorded SENT exactly when a call for it succeeded and FAILED exactly when a
\* call for it failed; none is left PENDING.
C7_OutcomeRecordedAsReturned ==
  \A b \in Campaigns : \A r \in Rows(b) :
    (r.id \in gw.once /\ r.id \notin AllInFlight) =>
       /\ r.status # "PENDING"
       /\ r.id \in gw.ok => r.status = "SENT"
       /\ r.id \in gw.failed => r.status = "FAILED"

\* C8: in every state, sentCount + failedCount + (rows in PENDING) =
\* totalRecipients.
C8_Conservation ==
  \A b \in Campaigns :
    broadcasts[b].sentCount + broadcasts[b].failedCount + PendingCount(b)
      = broadcasts[b].totalRecipients

\* C9: sentCount + failedCount <= totalRecipients in every state.
C9_CountersWithinTotal ==
  \A b \in Campaigns :
    broadcasts[b].sentCount + broadcasts[b].failedCount <= broadcasts[b].totalRecipients

\* C10: the stored sentCount and failedCount of a campaign never decrease.
C10_CountersNeverDecrease ==
  [][\A b \in BroadcastIds :
       Exists(b) /\ broadcasts'[b].exists =>
         /\ broadcasts'[b].sentCount >= broadcasts[b].sentCount
         /\ broadcasts'[b].failedCount >= broadcasts[b].failedCount]_vars

\* the rows of campaign b a run has taken into a batch it started: the rows of
\* the batches before the run's position i, and the rows of the batch at i once
\* its gateway calls have been started
Started(jid) ==
  LET run == runs[jid]
  IN IF jobs[jid].state # "active" THEN {}
     ELSE Range(SubSeq(run.recipients, 1,
            Min(Len(run.recipients),
                IF run.pc \in {"inflight", "record", "counts"}
                THEN run.i + run.batchSize ELSE run.i)))

\* C11: in a run, for every assignment of gateway outcomes (returned, transient
\* or permanent error thrown), a failed row stops nothing: the handler never
\* leaves its loop through an error, every row of a started batch that is no
\* longer in flight is recorded SENT exactly when its own call succeeded and
\* FAILED exactly when its own call failed, and every row of the batches before
\* the run's position has been dispatched, whatever happened to earlier rows.
C11_BatchIsolation ==
  /\ \A jid \in JobIds : runs[jid].pc # "catch"
  /\ \A jid \in JobIds : Started(jid) \subseteq gw.once
  /\ \A b \in Campaigns : \A r \in Rows(b) :
       (r.id \in gw.once /\ r.id \notin AllInFlight) =>
          /\ r.status = "SENT" <=> r.id \in gw.ok
          /\ r.status = "FAILED" <=> r.id \in gw.failed

\* a campaign of three rows in batches of one whose first row failed and whose
\* later rows, in later batches, were dispatched and recorded SENT
C11_Witness ==
  \E b \in Campaigns :
    /\ Len(recipients[b]) = MaxRecipients + 1
    /\ broadcasts[b].batchSize = 1
    /\ recipients[b][1].status = "FAILED"
    /\ \A k \in 2..Len(recipients[b]) : recipients[b][k].status = "SENT"

StatusCount(b, status) == Cardinality({r \in Rows(b) : r.status = status})

\* the campaign's run has returned: its job is completed
RunReturned(b) == jobs[<<b, "main">>].state = "completed"

\* C12: a run whose store operations all succeed never enters the handler's
\* catch block and never sets the campaign to FAILED, whatever the gateway
\* outcomes are; the step in which it returns sets the campaign COMPLETED, and
\* once it has returned failedCount counts the failed rows and sentCount the
\* sent ones, also when every row failed.
C12_GatewayFailuresNeverFailCampaign ==
  /\ [](/\ \A jid \in JobIds : runs[jid].pc # "catch" /\ jobs[jid].state # "failed"
        /\ \A b \in Campaigns :
             /\ broadcasts[b].status # "FAILED"
             /\ RunReturned(b) =>
                  /\ broadcasts[b].failedCount = StatusCount(b, "FAILED")
                  /\ broadcasts[b].failedCount = Cardinality(gw.failed)
                  /\ broadcasts[b].sentCount = StatusCount(b, "SENT"))
  /\ [][\A b \in Campaigns :
          (~RunReturned(b) /\ RunReturned(b)') => broadcasts'[b].status = "COMPLETED"]_vars

\* a run in which the send of every recipient failed has returned
C12_Witness ==
  \E b \in Campaigns :
    /\ RunReturned(b)
    /\ broadcasts[b].status = "COMPLETED"
    /\ Len(recipients[b]) > 1
    /\ broadcasts[b].failedCount = Len(recipients[b])
    /\ \A r \in Rows(b) : r.status = "FAILED"

\* a step in which run jid records the outcome of the row at its position j
RecordStep(jid) == Run(jid, "record") /\ runs'[jid] # runs[jid] /\ runs'[jid].pc # "catch"

\* C13: when the gateway call of a row fails transiently (rate limit, timeout,
\* temporary outage) and it was the row's first call, so that no bound on the
\* attempts of the row is exceeded, the dispatcher leaves the row PENDING for a
\* later batch instead of marking it FAILED.
C13_TransientFailureLeavesRowPending ==
  [][\A jid \in JobIds :
       RecordStep(jid) =>
         LET id == Batch(runs[jid])[runs[jid].j]
         IN (runs[jid].results[runs[jid].j].error = "TRANSIENT_FAILURE" /\ id \notin gw.twice)
              => \E r \in Range(recipients'[jid[1]]) : r.id = id /\ r.status = "PENDING"]_vars

AllRowsDone(b) == \A r \in Rows(b) : r.status \in {"SENT", "FAILED"}

\* C14: under fair scheduling, with no pause, cancel or store error, every
\* campaign on which send was accepted (its job added, from DRAFT or SCHEDULED)
\* eventually is COMPLETED with every row SENT or FAILED, for every assignment
\* of gateway outcomes: each row was dispatched once, a row whose call failed is
\* FAILED and the other rows are SENT.
C14_SentCampaignCompletes ==
  \A b \in BroadcastIds :
    (api.op = "send" /\ api.b = b)
      ~> (/\ broadcasts[b].status = "COMPLETED"
          /\ AllRowsDone(b)
          /\ gw.twice = {}
          /\ \A r \in Rows(b) : (r.status = "SENT") <=> (r.id \in gw.ok)
          /\ \A r \in Rows(b) : (r.status = "FAILED") <=> (r.id \in gw.failed))

\* the scenario of three recipients whose second call failed: the campaign is
\* COMPLETED, recipient 2 is FAILED, recipients 1 and 3 are SENT
C14_Witness ==
  \E b \in Campaigns :
    /\ broadcasts[b].status = "COMPLETED"
    /\ RunReturned(b)
    /\ Len(recipients[b]) = MaxRecipients + 1
    /\ \A k \in 1..Len(recipients[b]) :
         recipients[b][k].status = IF k = 2 THEN "FAILED" ELSE "SENT"

\* C15: every change of the status of a campaign that is not in a terminal
\* status follows a listed edge: DRAFT to SCHEDULED or QUEUED, SCHEDULED to
\* QUEUED or CANCELLED, QUEUED to SENDING or CANCELLED, SENDING to PAUSED,
\* COMPLETED, FAILED or CANCELLED, PAUSED to SENDING or CANCELLED. So a scheduled
\* campaign is QUEUED before it is SENDING, and SENDING is entered only from
\* QUEUED or PAUSED.
C15_StatusFollowsListedEdges ==
  [][\A b \in BroadcastIds :
       LET from == broadcasts[b].status
           to == broadcasts'[b].status
       IN (Exists(b) /\ broadcasts'[b].exists /\ from \notin TerminalStatuses /\ to # from) =>
            \/ from = "DRAFT" /\ to \in {"SCHEDULED", "QUEUED"}
            \/ from = "SCHEDULED" /\ to \in {"QUEUED", "CANCELLED"}
            \/ from = "QUEUED" /\ to \in {"SENDING", "CANCELLED"}
            \/ from = "SENDING" /\ to \in {"PAUSED", "COMPLETED", "FAILED", "CANCELLED"}
            \/ from = "PAUSED" /\ to \in {"SENDING", "CANCELLED"}]_vars

\* the request ended at its validation: nothing is left to run, and the
\* campaigns, the recipient rows and the queue are as before
RejectedUnchanged ==
  /\ api' = ApiIdle
  /\ UNCHANGED <<broadcasts, recipients, nextRowId, jobs, runs>>

\* C16: send on a campaign not in DRAFT/SCHEDULED, pause on one not in SENDING,
\* resume on one not in PAUSED and cancel on one not in QUEUED/SENDING/PAUSED/
\* SCHEDULED end at their validation and leave the campaign's status and
\* counters, the recipient rows and the queued jobs unchanged.
C16_InvalidRequestChangesNothing ==
  [][\A b \in BroadcastIds : \A t \in Tenants :
       (api.op = "idle" /\ Found(t, b)) =>
         /\ (broadcasts[b].status \notin {"DRAFT", "SCHEDULED"} /\ sendBegin(t, b))
              => RejectedUnchanged
         /\ (broadcasts[b].status # "SENDING" /\ pauseBegin(t, b))
              => RejectedUnchanged
         /\ (broadcasts[b].status # "PAUSED" /\ resumeBegin(t, b))
              => RejectedUnchanged
         /\ (broadcasts[b].status \notin {"QUEUED", "SENDING", "PAUSED", "SCHEDULED"}
                /\ cancelBegin(t, b))
              => RejectedUnchanged]_vars

\* no request is in progress and a campaign with rows and a kept job is
\* COMPLETED: each of send, pause, resume and cancel is invalid on it
C16_Witness ==
  /\ api.op = "idle"
  /\ \E b \in Campaigns :
       /\ broadcasts[b].status = "COMPLETED"
       /\ Len(recipients[b]) > 0
       /\ jobs[<<b, "main">>].state = "completed"

\* C17: the dispatcher changes the recorded state of a row only from PENDING:
\* a run records an outcome only on a row that is stored PENDING, a row stored
\* SENT or FAILED keeps that state, and no row returns to PENDING.
C17_RowLeavesPendingOnce ==
  [][/\ \A jid \in JobIds :
          (RecordStep(jid) /\ recipients' # recipients) =>
            \A r \in Rows(jid[1]) :
              r.id = Batch(runs[jid])[runs[jid].j] => r.status = "PENDING"
     /\ \A b \in BroadcastIds : \A r \in Rows(b) : \A q \in Range(recipients'[b]) :
          (q.id = r.id /\ q.status # r.status) => r.status = "PENDING"]_vars

\* the targeting rule of the dto resolves to no recipient
ResolvesToNone(tenantId, dto) == Len(calculateRecipients(tenantId, dto)) = 0

\* C18: create with a targeting rule that resolves to no recipient ends at its
\* validation and creates no campaign, no recipient row and no queued job; a
\* campaign that comes into being has at least one row.
C18_EmptyTargetCreatesNothing ==
  [][/\ \A dto \in SendDtos :
          (ResolvesToNone("t1", dto) /\ create("t1", dto)) => RejectedUnchanged
     /\ \A b \in BroadcastIds :
          (~Exists(b) /\ broadcasts'[b].exists) =>
             /\ Len(recipients'[b]) > 0
             /\ broadcasts'[b].totalRecipients = Len(recipients'[b])]_vars

\* a create whose targeting rule resolves to no recipient can be issued, and no
\* campaign, row or job exists
C18_Witness ==
  /\ ENABLED (\E dto \in SendDtos : ResolvesToNone("t1", dto) /\ create("t1", dto))
  /\ Campaigns = {}
  /\ \A b \in BroadcastIds : recipients[b] = <<>>
  /\ \A jid \in JobIds : jobs[jid].state = "none"

\* C19: for every targeting rule (ALL, GROUP, TAG, CUSTOM, with or without
\* filters) the resolved recipient list holds no contact twice and no contact
\* without a phone number.
C19_ResolvedListDedupedWithPhone ==
  api.op = "resolved" =>
    /\ \A j, k \in 1..Len(api.recipientIds) :
         j # k => api.recipientIds[j] # api.recipientIds[k]
    /\ \A k \in 1..Len(api.recipientIds) : Contact(api.recipientIds[k]).phone

\* C20: the transaction of an update that changes the targeting replaces only
\* PENDING rows and sets totalRecipients to the number of rows the campaign then
\* has: a row recorded SENT or FAILED is still there after it, with its state,
\* also when a run started by the scheduled job runs beside the update.
C20_RetargetKeepsRecordedRows ==
  [][\A b \in BroadcastIds :
       (api.op = "update_tx" /\ api.b = b /\ api.retarget /\ api'.op = "update_queue") =>
          /\ \A r \in Rows(b) :
               r.status \in {"SENT", "FAILED"} => r \in Range(recipients'[b])
          /\ broadcasts'[b].totalRecipients = Len(recipients'[b])]_vars

\* the runs of campaign b that have started and not returned
ActiveRuns(b) == JobsOf(b) \cap ActiveJobs

\* C21: whenever no run of a campaign is active and the campaign is PAUSED,
\* CANCELLED or COMPLETED, sentCount is the number of its rows in SENT and
\* failedCount the number of its rows in FAILED.
C21_CountersMatchRowsAtRest ==
  \A b \in Campaigns :
    (ActiveRuns(b) = {} /\ broadcasts[b].status \in {"PAUSED", "CANCELLED", "COMPLETED"}) =>
       /\ broadcasts[b].sentCount = StatusCount(b, "SENT")
       /\ broadcasts[b].failedCount = StatusCount(b, "FAILED")

\* C22: at most one run is active for a campaign at any time.
C22_AtMostOneActiveRun ==
  \A b \in BroadcastIds : Cardinality(ActiveRuns(b)) <= 1

\* C23: whenever a campaign is COMPLETED none of its rows is PENDING, and a run
\* that found no PENDING row goes to its COMPLETED write without a gateway call.
C23_CompletedHasNoPendingRow ==
  /\ \A b \in Campaigns : broadcasts[b].status = "COMPLETED" => PendingCount(b) = 0
  /\ \A jid \in ActiveJobs :
       (runs[jid].pc \notin {"setSending", "select", "catch"} /\ runs[jid].recipients = <<>>)
          => runs[jid].pc = "complete"

\* the run of campaign b's job is in its batch loop or has left it
InLoop(jid) ==
  jobs[jid].state = "active" /\ runs[jid].pc \in {"loop", "inflight", "record", "counts", "complete"}

\* C24: with N PENDING rows, batch size B, every gateway call succeeding and no
\* pause or cancel, a run dispatches ceil(N/B) batches, each of exactly B rows
\* except a last one of N mod B rows when B does not divide N (the run's
\* position is a multiple of B, the rows dispatched so far are the rows before
\* it, and it leaves the loop at ceil(N/B) * B), and the run returns, setting
\* the campaign COMPLETED with sentCount = N and failedCount = 0.
C24_BatchesOfSizeB ==
  /\ [](\A jid \in JobIds :
          LET run == runs[jid]
              N == Len(run.recipients)
              B == run.batchSize
          IN (InLoop(jid) /\ N > 0) =>
               /\ run.i % B = 0
               /\ (run.pc # "complete") =>
                     /\ run.i < N
                     /\ Len(Batch(run)) = (IF N - run.i >= B THEN B ELSE N % B)
               /\ (run.pc = "complete") => run.i = ((N + B - 1) \div B) * B
               /\ Cardinality(gw.once) =
                     Min(N, IF run.pc \in {"inflight", "record", "counts"}
                            THEN run.i + B ELSE run.i))
  /\ [][\A jid \in JobIds :
          (runs[jid].pc = "loop" /\ runs'[jid].pc = "inflight") =>
             /\ gw'.once \ gw.once = Range(Batch(runs[jid]))
             /\ Cardinality(gw'.once \ gw.once) = Len(Batch(runs[jid]))]_vars
  /\ [][\A b \in Campaigns :
          (~RunReturned(b) /\ RunReturned(b)' /\ gw.failed = {}) =>
             /\ broadcasts'[b].status = "COMPLETED"
             /\ broadcasts'[b].sentCount = Len(runs[<<b, "main">>].recipients)
             /\ broadcasts'[b].sentCount = Len(recipients[b])
             /\ broadcasts'[b].failedCount = 0]_vars
  /\ \A b \in BroadcastIds : (jobs[<<b, "main">>].state = "active") ~> RunReturned(b)

\* the campaign of 5 recipients and batch size 2 whose calls all succeeded: the
\* run has returned after batches of 2, 2 and 1
C24_Witness ==
  \E b \in Campaigns :
    /\ Len(recipients[b]) = MaxListLen
    /\ broadcasts[b].batchSize = 2
    /\ RunReturned(b)
    /\ broadcasts[b].status = "COMPLETED"
    /\ broadcasts[b].sentCount = MaxListLen
    /\ broadcasts[b].failedCount = 0
    /\ gw.ok = {r.id : r \in Rows(b)}

\* C25: within one campaign rows are dispatched in creation order and batches
\* strictly one after another: when a batch is dispatched, no row created after
\* one of its rows has been dispatched before, and no other batch of the
\* campaign is in flight, being recorded or waiting for its counter update.
C25_BatchesInOrderOneAtATime ==
  [][\A jid \in JobIds :
       (runs[jid].pc = "loop" /\ runs'[jid].pc = "inflight") =>
          /\ \A x \in Range(Batch(runs[jid])) :
               \A r \in Rows(jid[1]) : r.id > x => r.id \notin gw.once
          /\ \A other \in ActiveRuns(jid[1]) \ {jid} :
               runs[other].pc \notin {"inflight", "record", "counts"}]_vars

\* the number of gateway calls campaign b has in flight: the calls of every
\* batch whose Promise.allSettled has not resolved
CallsInFlight(b) ==
  LET n[S \in SUBSET JobsOf(b)] ==
        IF S = {} THEN 0
        ELSE LET jid == CHOOSE x \in S : TRUE
             IN (IF jobs[jid].state = "active" /\ runs[jid].pc = "inflight"
                 THEN Len(Batch(runs[jid])) ELSE 0) + n[S \ {jid}]
  IN n[JobsOf(b)]

\* C26: at every moment the number of gateway calls in flight for one campaign
\* is at most that campaign's batchSize, for any interleaving of send, pause,
\* resume and dispatcher runs.
C26_InFlightWithinBatchSize ==
  \A b \in Campaigns : CallsInFlight(b) <= broadcasts[b].batchSize

\* C27: when a store operation fails during a run, the campaign is set to FAILED
\* only once the retries are exhausted (the step that writes FAILED is the one
\* that fails the job for good), and that step changes no recipient row.
C27_FailedOnlyAfterRetries ==
  [][\A b \in Campaigns :
       (broadcasts[b].status # "FAILED" /\ broadcasts'[b].status = "FAILED") =>
          /\ \E jid \in JobsOf(b) : jobs[jid].state = "active" /\ jobs'[jid].state = "failed"
          /\ recipients' = recipients]_vars

\* C28: if the dispatcher process crashes at any point of a run and the job is
\* run again, the new run dispatches only rows that are PENDING in the store,
\* and when the job has completed the campaign is COMPLETED with
\* sentCount + failedCount = totalRecipients.
C28_RerunAfterCrashCompletes ==
  /\ [][\A jid \in JobIds :
          (runs[jid].pc = "loop" /\ runs'[jid].pc = "inflight") =>
             \A x \in Range(Batch(runs[jid])) :
               \E r \in Rows(jid[1]) : r.id = x /\ r.status = "PENDING"]_vars
  /\ [](\A b \in Campaigns :
          (RunReturned(b) /\ broadcasts[b].status = "COMPLETED") =>
             broadcasts[b].sentCount + broadcasts[b].failedCount
                = broadcasts[b].totalRecipients)

\* a step of an accepted cancel: up to the removal of the job, or the update
\* of the campaign
CancelAccepted == api.op = "idle" /\ api'.op = "cancel"
CancelWrites == api.op = "cancel" /\ api'.op = "idle"

\* C29: cancel changes only the campaign's status (cancelledAt is not part of
\* the state) and removes the job queued under the campaign's job id: no step
\* of a cancel changes a recipient row, a counter, another campaign or another
\* job, so at any time a row that was not dispatched is PENDING, and a row is
\* FAILED only when its own gateway call failed.
C29_CancelChangesOnlyStatusAndJob ==
  /\ [][CancelAccepted =>
          /\ UNCHANGED <<broadcasts, recipients, runs, gw>>
          /\ jobs'[<<api'.b, "main">>].state \in {"none", "active"}
          /\ \A jid \in JobIds \ {<<api'.b, "main">>} : jobs'[jid] = jobs[jid]]_vars
  /\ [][CancelWrites =>
          /\ UNCHANGED <<recipients, jobs, runs, gw>>
          /\ Exists(api.b) =>
                broadcasts' = [broadcasts EXCEPT ![api.b].status = "CANCELLED"]]_vars
  /\ [](\A b \in Campaigns : \A r \in Rows(b) :
          /\ r.id \notin gw.once => r.status = "PENDING"
          /\ r.status = "FAILED" => r.id \in gw.failed)

\* a campaign cancelled between two batches: its run has returned, its first
\* row is recorded SENT and its second row, never dispatched, is still PENDING
C29_Witness ==
  \E b \in Campaigns :
    /\ broadcasts[b].status = "CANCELLED"
    /\ hist[b].cancelAccepted
    /\ ActiveRuns(b) = {}
    /\ api.op = "idle"
    /\ \E r \in Rows(b) : r.status = "SENT"
    /\ \E r \in Rows(b) : r.status = "PENDING" /\ r.id \notin gw.once
    /\ broadcasts[b].sentCount = 1

\* C30: after create and after every update, totalRecipients equals the number
\* of recipient rows of the campaign, and no step other than the transaction of
\* an update that changes targeting alters the totalRecipients of a campaign.
C30_TotalIsRowCount ==
  /\ [](\A b \in Campaigns : broadcasts[b].totalRecipients = Len(recipients[b]))
  /\ [][\A b \in Campaigns :
          broadcasts'[b].totalRecipients # broadcasts[b].totalRecipients =>
             /\ api.op = "update_tx" /\ api.b = b /\ api.retarget
             /\ api'.op = "update_queue"]_vars

\* a campaign created with two recipients and retargeted to a list of one
C30_Witness ==
  \E b \in Campaigns :
    /\ limits.retargets < MaxRetargets
    /\ api.op = "idle"
    /\ broadcasts[b].totalRecipients = 1
    /\ Len(recipients[b]) = 1
    /\ recipients[b][1].id = MaxRecipients + 1

\* the recipient set of campaign b: the rows without their state
RecipientSet(rows) == [k \in 1..Len(rows) |-> [id |-> rows[k].id, contactId |-> rows[k].contactId]]

\* a step of send, pause, resume or cancel: the request in progress changes
ControlStep == api' # api

\* C31: send, pause, resume, cancel and dispatcher runs neither create nor
\* delete recipient rows of an existing campaign (the recipient set is frozen
\* at creation), and no step of send, pause, resume or cancel changes the state
\* of a row: row states are written only by the dispatcher.
C31_RecipientSetFrozen ==
  [][\A b \in Campaigns :
       /\ RecipientSet(recipients'[b]) = RecipientSet(recipients[b])
       /\ ControlStep => recipients'[b] = recipients[b]
       /\ recipients'[b] # recipients[b] =>
             \E jid \in JobsOf(b) : runs[jid].pc = "record" /\ runs'[jid] # runs[jid]]_vars

\* a campaign that was sent, paused after its first row failed, and resumed:
\* the failed row is still FAILED and the other row still PENDING
C31_Witness ==
  \E b \in Campaigns :
    /\ broadcasts[b].status = "SENDING"
    /\ jobs[<<b, "resume">>].state = "waiting"
    /\ api.op = "idle"
    /\ Len(recipients[b]) = 2
    /\ recipients[b][1].status = "FAILED"
    /\ recipients[b][2].status = "PENDING"

\* the step changes what the store holds of campaign b
Changes(b) == broadcasts'[b] # broadcasts[b] \/ recipients'[b] # recipients[b]

\* the step is one of campaign b: its creation, a step of a request on it, or a
\* step of one of its jobs or runs
ActsOn(b) ==
  \/ ~Exists(b) /\ Exists(b)'
  \/ api' # api /\ (IF api.op = "idle" THEN api'.b ELSE api.b) = b
  \/ \E jid \in JobsOf(b) : runs'[jid] # runs[jid] \/ jobs'[jid] # jobs[jid]

\* C32: controller operations and dispatcher runs on one campaign leave the
\* status, counters and recipient rows of every other campaign unchanged, for
\* any interleaving of the runs of several campaigns: a step that changes a
\* campaign is a step of that campaign and of no other.
C32_CampaignsIndependent ==
  [][\A b \in BroadcastIds :
       Changes(b) => /\ ActsOn(b)
                     /\ \A c \in BroadcastIds \ {b} : ~ActsOn(c) /\ ~Changes(c)]_vars

\* two campaigns over the same contacts whose runs overlapped: one run has
\* recorded a failed row while the other campaign is COMPLETED with every row SENT
C32_Witness ==
  \E b, c \in Campaigns :
    /\ b # c
    /\ broadcasts[c].status = "COMPLETED"
    /\ \A r \in Rows(c) : r.status = "SENT"
    /\ jobs[<<b, "main">>].state = "active"
    /\ runs[<<b, "main">>].pc = "counts"
    /\ \E r \in Rows(b) : r.status = "FAILED"

\* C33: every campaign whose status is SCHEDULED has a scheduler job queued for
\* it once the request that scheduled it has ended, after create and after
\* update, for a scheduledAt in the future and for one already past.
C33_ScheduledHasJob ==
  \A b \in Campaigns :
    (broadcasts[b].status = "SCHEDULED" /\ api.op = "idle") =>
       jobs[<<b, "main">>].state \in {"delayed", "waiting", "active"}

\* C34: a campaign put back to DRAFT has no queued job that could later start
\* a dispatcher run: once the request that made or left it DRAFT has ended, no
\* job of the campaign is delayed, waiting or active.
C34_DraftHasNoJob ==
  \A b \in Campaigns :
    (broadcasts[b].status = "DRAFT" /\ api.op = "idle") =>
       \A jid \in JobsOf(b) : jobs[jid].state \notin {"delayed", "waiting", "active"}

\* C35: delete never succeeds while a dispatcher run of the campaign still has
\* gateway calls in flight or outcomes or counters left to record, so that no
\* run records an outcome or a status for a deleted campaign.
C35_NoDeleteUnderARun ==
  [][\A b \in BroadcastIds :
       (Exists(b) /\ ~Exists(b)') =>
          \A jid \in ActiveRuns(b) : runs[jid].pc \notin {"inflight", "record", "counts"}]_vars

\* C37: update on a campaign that is not DRAFT or SCHEDULED and delete on a
\* campaign that is SENDING end at their validation and change no campaign
\* field, no recipient row and no queued job; update on a DRAFT or SCHEDULED
\* campaign and delete on a campaign that is not SENDING pass it.
C37_UpdateAndDeleteValidated ==
  [][\A b \in BroadcastIds : \A t \in Tenants :
       (api.op = "idle" /\ Found(t, b)) =>
         /\ \A dto \in UpdateDtos :
              /\ (broadcasts[b].status \notin {"DRAFT", "SCHEDULED"} /\ updateBegin(t, b, dto))
                   => RejectedUnchanged
              /\ (broadcasts[b].status \in {"DRAFT", "SCHEDULED"} /\ updateBegin(t, b, dto))
                   => api'.op = "update_tx" /\ api'.b = b
         /\ (broadcasts[b].status = "SENDING" /\ deleteBegin(t, b))
              => RejectedUnchanged
         /\ (broadcasts[b].status # "SENDING" /\ deleteBegin(t, b))
              => api'.op = "delete" /\ api'.b = b]_vars

\* no request is in progress and a campaign is SENDING, with a run that has a
\* batch in flight: update and delete are both invalid on it
C37_Witness ==
  /\ api.op = "idle"
  /\ \E b \in Campaigns :
       /\ broadcasts[b].status = "SENDING"
       /\ Len(recipients[b]) > 0
       /\ jobs[<<b, "main">>].state = "active"
       /\ runs[<<b, "main">>].pc = "inflight"

\* C36: every recipient row of a campaign refers to a contact of the campaign's
\* own tenant: for every target type (ALL, GROUP, TAG, CUSTOM), with or without
\* filters, the list resolved for a tenant, which becomes the rows, holds only
\* contacts of that tenant.
C36_RecipientsOfOwnTenant ==
  [][\A t \in Tenants :
       resolveRecipients(t) =>
         \A k \in 1..Len(api'.recipientIds) : Contact(api'.recipientIds[k]).tenantId = t]_vars

====
